---- MODULE Spec2Model ----
(***************************************************************************)
(* KinichKakmo: the search-result filtering pipeline of                    *)
(* src/KinichKakmo.py (apply_filters, the prefix truncation of main, and   *)
(* the places of main that read a record's fields).                        *)
(*                                                                         *)
(* Text is modelled as Python holds it, a sequence of Unicode code points   *)
(* ("Isla" is <<73, 115, 108, 97>>), so that str.lower() and the substring *)
(* test `x in y` are computed and not assumed.  Python lists are           *)
(* objects: `heap` is the sequence of all list objects created so far and  *)
(* a list variable of the program holds a reference (an index of heap),    *)
(* 0 standing for None.  Dictionaries are records whose domain is the set  *)
(* of keys that are present.                                               *)
(***************************************************************************)
EXTENDS Integers, Sequences, FiniteSets, TLC

VARIABLES
    pc,                   \* position in main's search branch
    query,                \* st.text_input "Search Query"
    sources,              \* st.multiselect "Filter by Source"
    entity_type_filter,   \* st.selectbox "Entity Type"
    min_score,            \* st.slider "Minimum Match Score"
    max_results,          \* st.number_input "Maximum Results"
    jurisdiction_filter,  \* st.text_input "Jurisdiction Filter"
    date_range_filter,    \* st.selectbox "Data Source Period"
    heap,                 \* the list objects: heap[ref] is the content of list ref
    results,              \* main's `results`: a reference, 0 for None
    filtered_results,     \* main's `filtered_results`: a reference, 0 when unbound
    unlimited,            \* the reference apply_filters returned, before the slice
    received,             \* the content of the provider's list when it was received
    clicked,              \* the st.button whose click caused this run of main
    search_outcome,       \* how search_icij_database ended in this run
    history,              \* the rows of the search_history table
    display,              \* the result cards rendered in this run
    df_export,            \* main's `df_export`, or the exception that ended the run
    comparison_list,      \* st.session_state.comparison_list
    comp_df,              \* tab3's `comp_df`
    handed,               \* the arguments of this run's calls of save_search_history
    downloads,            \* the payloads of the st.download_button calls of this run
    notices               \* the st.error, st.warning and exception boxes of this run

\* what the filter and limit steps leave alone
uivars == <<clicked, search_outcome, history, display, df_export,
            comparison_list, comp_df, handed, downloads, notices>>

vars == <<pc, query, sources, entity_type_filter, min_score, max_results,
          jurisdiction_filter, date_range_filter, heap, results,
          filtered_results, unlimited, received, uivars>>

-----------------------------------------------------------------------------
(* Text *)

\* U+0131 LATIN SMALL LETTER DOTLESS I: a lower-case letter of its own, whose
\* upper case is the ASCII "I" (73), the lower case of which is "i" (105).
DotlessI == 305

\* str.lower() on one character: "A".."Z" (65..90) become "a".."z" (97..122);
\* the other ASCII characters and U+0131 are their own lower case
LowerChar(c) == IF c >= 65 /\ c <= 90 THEN c + 32 ELSE c

\* str.lower()
lower(s) == [i \in 1..Len(s) |-> LowerChar(s[i])]

\* the Python test `needle.lower() in hay.lower()`: some window of hay has,
\* character by character, the lower case of needle (lower() keeps the length
\* of every text modelled here)
InLower(needle, hay) ==
    \E i \in 0..(Len(hay) - Len(needle)) :
        \A j \in 1..Len(needle) : LowerChar(hay[i + j]) = LowerChar(needle[j])

\* the Python test `needle in hay.lower()`
InLowerHay(needle, hay) ==
    \E i \in 0..(Len(hay) - Len(needle)) :
        \A j \in 1..Len(needle) : LowerChar(hay[i + j]) = needle[j]

\* the Python test `needle in hay`
Contains(needle, hay) ==
    \E i \in 0..(Len(hay) - Len(needle)) :
        \A j \in 1..Len(needle) : hay[i + j] = needle[j]

\* dict.get(key, default)
Get(d, key, default) == IF key \in DOMAIN d THEN d[key] ELSE default

EmptyStr == <<>>

-----------------------------------------------------------------------------
(* Configuration *)

PanamaPapers   == <<80, 97, 110, 97, 109, 97, 32, 80, 97, 112, 101, 114, 115>>   \* "Panama Papers"
ParadisePapers == <<80, 97, 114, 97, 100, 105, 115, 101, 32, 80, 97, 112, 101, 114, 115>>   \* "Paradise Papers"
PandoraPapers  == <<80, 97, 110, 100, 111, 114, 97, 32, 80, 97, 112, 101, 114, 115>>   \* "Pandora Papers"
BahamasLeaks   == <<66, 97, 104, 97, 109, 97, 115, 32, 76, 101, 97, 107, 115>>   \* "Bahamas Leaks"
OffshoreLeaks  == <<79, 102, 102, 115, 104, 111, 114, 101, 32, 76, 101, 97, 107, 115>>   \* "Offshore Leaks"

DATA_SOURCES ==
    <<PanamaPapers, ParadisePapers, PandoraPapers, BahamasLeaks, OffshoreLeaks>>

\* the options of the "Data Source Period" select box
AllTime      == "All Time"
Bucket2021   == "2021-Present (Pandora)"
Bucket2016   == "2016-2017 (Panama/Paradise/Bahamas)"
Bucket2013   == "2013 (Offshore Leaks)"

\* mutant: a date range that is not a key gets the list of a bucket
date_source_mapDefaultsToBucket(date_range) ==
    CASE date_range = Bucket2021 -> <<PandoraPapers>>
      [] date_range = Bucket2016 -> <<PanamaPapers, ParadisePapers, BahamasLeaks>>
      [] OTHER -> <<OffshoreLeaks>>

\* date_source_map.get(date_range, [])
date_source_map(date_range) ==
    CASE date_range = Bucket2021 -> <<PandoraPapers>>
      [] date_range = Bucket2016 -> <<PanamaPapers, ParadisePapers, BahamasLeaks>>
      [] date_range = Bucket2013 -> <<OffshoreLeaks>>
      [] OTHER -> <<>>

-----------------------------------------------------------------------------
(* apply_filters *)

\* A list comprehension [r for r in xs if test(r)] is SelectSeq(xs, test).

\* binding a name to a newly built list: the list is a new object
NewList(f, content) ==
    [ref |-> Len(f.heap) + 1, heap |-> Append(f.heap, content)]

\* mutant: the source comprehension matches on the description only
SourceTestDescriptionOnly(r, srcs) ==
    \E k \in 1..Len(srcs) : InLower(srcs[k], Get(r, "description", EmptyStr))

\* the condition of the source comprehension
SourceTest(r, srcs) ==
    \E k \in 1..Len(srcs) :
        \/ InLower(srcs[k], Get(r, "description", EmptyStr))
        \/ InLower(srcs[k], Get(r, "name", EmptyStr))

\* the condition of the entity type comprehension
TypeTest(r, entity_type) ==
    /\ "types" \in DOMAIN r
    /\ r.types # <<>>
    /\ Len(r.types) > 0
    /\ Get(r.types[1], "name", "") = entity_type

\* mutant: a score equal to the threshold is rejected
ScoreTestStrict(r, minimum) == Get(r, "score", 0) > minimum

\* the condition of the score comprehension
ScoreTest(r, minimum) == Get(r, "score", 0) >= minimum

\* mutant: the jurisdiction is compared as typed, only the record text is lowered
JurisdictionTestAsTyped(r, jurisdiction) ==
    \/ InLowerHay(jurisdiction, Get(r, "description", EmptyStr))
    \/ InLowerHay(jurisdiction, Get(r, "name", EmptyStr))

\* the condition of the jurisdiction comprehension
JurisdictionTest(r, jurisdiction) ==
    \/ InLower(jurisdiction, Get(r, "description", EmptyStr))
    \/ InLower(jurisdiction, Get(r, "name", EmptyStr))

\* mutant: the date range comprehension reads the name too, as the source one does
DateTestWithName(r, allowed_sources) ==
    \E k \in 1..Len(allowed_sources) :
        \/ InLower(allowed_sources[k], Get(r, "description", EmptyStr))
        \/ InLower(allowed_sources[k], Get(r, "name", EmptyStr))

\* the condition of the date range comprehension
DateTest(r, allowed_sources) ==
    \E k \in 1..Len(allowed_sources) :
        InLower(allowed_sources[k], Get(r, "description", EmptyStr))

\* mutant: the source comprehension runs whether or not a source is selected
SourceFilterAlways(f, srcs) ==
    NewList(f, SelectSeq(f.heap[f.ref], LAMBDA r : SourceTest(r, srcs)))

SourceFilter(f, srcs) ==
    IF srcs # <<>>
    THEN NewList(f, SelectSeq(f.heap[f.ref], LAMBDA r : SourceTest(r, srcs)))
    ELSE f

TypeFilter(f, entity_type) ==
    IF entity_type # "All"
    THEN NewList(f, SelectSeq(f.heap[f.ref], LAMBDA r : TypeTest(r, entity_type)))
    ELSE f

\* mutant: the records that pass are added to the list (filtered + [...])
ScoreFilterAdds(f, minimum) ==
    IF minimum > 0
    THEN NewList(f, f.heap[f.ref]
                    \o SelectSeq(f.heap[f.ref], LAMBDA r : ScoreTest(r, minimum)))
    ELSE f

ScoreFilter(f, minimum) ==
    IF minimum > 0
    THEN NewList(f, SelectSeq(f.heap[f.ref], LAMBDA r : ScoreTest(r, minimum)))
    ELSE f

JurisdictionFilter(f, jurisdiction) ==
    IF jurisdiction # EmptyStr
    THEN NewList(f, SelectSeq(f.heap[f.ref], LAMBDA r : JurisdictionTest(r, jurisdiction)))
    ELSE f

\* mutant: the date range comprehension passes over the first record
\* (filtered[1:])
DateFilterSkipsFirst(f, date_range) ==
    IF date_range # AllTime
    THEN LET allowed_sources == date_source_map(date_range)
         IN  IF allowed_sources # <<>>
             THEN NewList(f, SelectSeq(SubSeq(f.heap[f.ref], 2, Len(f.heap[f.ref])),
                                           LAMBDA r : DateTest(r, allowed_sources)))
             ELSE f
    ELSE f

DateFilter(f, date_range) ==
    IF date_range # AllTime
    THEN LET allowed_sources == date_source_map(date_range)
         IN  IF allowed_sources # <<>>
             THEN NewList(f, SelectSeq(f.heap[f.ref],
                                           LAMBDA r : DateTest(r, allowed_sources)))
             ELSE f
    ELSE f

\* mutant: the score comprehension reads `results` and not `filtered`, so the
\* stages before it are lost
apply_filtersScoreFromResults(h, res, srcs, entity_type, minimum, jurisdiction, date_range) ==
    LET filtered == [ref |-> res, heap |-> h]
        f1 == SourceFilter(filtered, srcs)
        f2 == TypeFilter(f1, entity_type)
        f3 == IF minimum > 0
              THEN NewList(f2, SelectSeq(h[res], LAMBDA r : ScoreTest(r, minimum)))
              ELSE f2
        f4 == JurisdictionFilter(f3, jurisdiction)
        f5 == DateFilter(f4, date_range)
    IN  f5

\* apply_filters(results, sources, entity_type, min_score, jurisdiction, date_range):
\* the frame [ref, heap] after the call, ref being the returned list
apply_filters(h, res, srcs, entity_type, minimum, jurisdiction, date_range) ==
    LET filtered == [ref |-> res, heap |-> h]
        f1 == SourceFilter(filtered, srcs)
        f2 == TypeFilter(f1, entity_type)
        f3 == ScoreFilter(f2, minimum)
        f4 == JurisdictionFilter(f3, jurisdiction)
        f5 == DateFilter(f4, date_range)
    IN  f5

\* mutant: the last n records are kept (filtered_results[-max_results:])
SliceFromEnd(f, n) ==
    NewList(f, SubSeq(f.heap[f.ref],
                      IF n < Len(f.heap[f.ref]) THEN Len(f.heap[f.ref]) - n + 1 ELSE 1,
                      Len(f.heap[f.ref])))

\* mutant: the prefix starts one record late (filtered_results[1:max_results + 1])
SliceSkipFirst(f, n) ==
    NewList(f, SubSeq(f.heap[f.ref], 2,
                      IF n + 1 < Len(f.heap[f.ref]) THEN n + 1 ELSE Len(f.heap[f.ref])))

\* mutant: the list is cut in place (del filtered_results[max_results:])
SliceInPlace(f, n) ==
    [ref |-> f.ref,
     heap |-> [f.heap EXCEPT ![f.ref] =
                  SubSeq(@, 1, IF n < Len(@) THEN n ELSE Len(@))]]

\* filtered_results[:max_results]: a slice is a new list
Slice(f, n) ==
    NewList(f, SubSeq(f.heap[f.ref], 1, IF n < Len(f.heap[f.ref]) THEN n
                                         ELSE Len(f.heap[f.ref])))

-----------------------------------------------------------------------------
(* Bounded inputs *)

\* the longest list of the richly varied records drawn as a provider response
MaxLen == 2
\* the length of the long lists, one more than the least "Maximum Results" (5)
LongLen == 6

Alpha ==
    [id |-> <<101, 49>>,   \* "e1"
     name |-> <<65, 108, 112, 104, 97>>,   \* "Alpha"
     score |-> 90,
     description |-> <<80, 97, 110, 97, 109, 97, 32, 80, 97, 112, 101, 114, 115, 32, 101, 110, 116, 105, 116, 121>>,   \* "Panama Papers entity"
     types |-> <<[name |-> "Entity"]>>]

Beta ==
    [id |-> <<101, 50>>,   \* "e2"
     name |-> <<66, 101, 116, 97>>,   \* "Beta"
     score |-> 40,
     description |-> <<85, 110, 114, 101, 108, 97, 116, 101, 100>>,   \* "Unrelated"
     types |-> <<[name |-> "Officer"]>>]

\* a record with no name, score, description or types
Bare == [id |-> <<101, 51>>]   \* "e3"

\* a source label in the name only; an empty types list
NameOnly ==
    [id |-> <<101, 52>>,   \* "e4"
     name |-> <<80, 97, 110, 100, 111, 114, 97, 32, 80, 97, 112, 101, 114, 115, 32, 67, 111>>,   \* "Pandora Papers Co"
     score |-> 30,
     types |-> <<>>]

\* a description in capitals; a type name in lower case; a name whose
\* capital is "I"
Shouting ==
    [id |-> <<101, 53>>,   \* "e5"
     name |-> <<73, 115, 108, 97>>,   \* "Isla"
     score |-> 50,
     description |-> <<80, 65, 78, 68, 79, 82, 65, 32, 80, 65, 80, 69, 82, 83>>,   \* "PANDORA PAPERS"
     types |-> <<[name |-> "entity"], [name |-> "Entity"]>>]

RecordPool == {Alpha, Beta, Bare, NameOnly, Shouting}
LongPool == {Alpha, Beta}

RECURSIVE ListsUpTo(_, _)
ListsUpTo(S, n) ==
    IF n = 0 THEN {<<>>}
    ELSE LET shorter == ListsUpTo(S, n - 1)
         IN  shorter \cup {Append(xs, r) : xs \in {ys \in shorter : Len(ys) = n - 1}, r \in S}

ShortLists == ListsUpTo(RecordPool, MaxLen)
LongLists == {xs \in ListsUpTo(LongPool, LongLen) : Len(xs) = LongLen}

SourcesPool == {<<>>, <<PanamaPapers>>, <<OffshoreLeaks, PandoraPapers>>}
EntityTypePool == {"All", "Entity", "Officer"}
Panama == <<112, 97, 110, 97, 109, 97>>   \* "panama"
\* a jurisdiction typed with a dotless i
DotlessIsla == <<DotlessI, 115, 108, 97>>   \* "\u0131sla"
\* a date range that is none of the four options
UnknownRange == "1999"

Criteria(S, T, M, J, D, N) ==
    [sources : S, entity_type : T, min_score : M, jurisdiction : J,
     date_range : D, max_results : N]

\* every combination of the usual values with two of the date ranges; the
\* other two buckets and the rarer values (the least active threshold, a
\* jurisdiction that is not ASCII, an unknown date range) each with a few of
\* the others
CriteriaPool ==
    Criteria(SourcesPool, EntityTypePool, {0, 50}, {EmptyStr, Panama},
             {AllTime, Bucket2016}, {20})
    \cup Criteria(SourcesPool, {"All"}, {0, 50}, {EmptyStr},
                  {Bucket2021, Bucket2013}, {20})
    \cup Criteria({<<>>}, {"All"}, {1}, {EmptyStr}, {AllTime}, {20})
    \cup Criteria({<<>>}, {"All"}, {0}, {DotlessIsla}, {AllTime}, {20})
    \cup Criteria({<<>>, <<PanamaPapers>>}, {"All"}, {0, 50}, {EmptyStr},
                  {UnknownRange}, {20})

\* the long lists, with both sides of the cap
LongCriteriaPool ==
    Criteria({<<>>, <<PanamaPapers>>}, {"All"}, {0, 50}, {EmptyStr}, {AllTime},
             {5, 20})

FilterInputs == (ShortLists \X CriteriaPool) \cup (LongLists \X LongCriteriaPool)

-----------------------------------------------------------------------------
(* The filter and limit steps of main *)

\* filtered_results = apply_filters(results, sources, entity_type_filter, ...)
FilterStep ==
    /\ pc = "filter"
    /\ LET f == apply_filters(heap, results, sources, entity_type_filter,
                              min_score, jurisdiction_filter, date_range_filter)
       IN  /\ heap' = f.heap
           /\ filtered_results' = f.ref
           /\ unlimited' = f.ref
    /\ pc' = "limit"
    /\ UNCHANGED <<query, sources, entity_type_filter, min_score, max_results,
                   jurisdiction_filter, date_range_filter, results, received,
                   uivars>>

\* filtered_results = filtered_results[:max_results]
LimitStep ==
    /\ pc = "limit"
    /\ LET f == Slice([ref |-> filtered_results, heap |-> heap], max_results)
       IN  /\ heap' = f.heap
           /\ filtered_results' = f.ref
    /\ pc' = "history"
    /\ UNCHANGED <<query, sources, entity_type_filter, min_score, max_results,
                   jurisdiction_filter, date_range_filter, results, unlimited,
                   received, uivars>>

\* no button was clicked
NoClick == [button |-> "none"]
\* the export table is not built
NoExport == [status |-> "none"]
\* no download button is on the page
NoDownloads == <<>>

\* apply_filters and the slice applied to one drawn record list and one drawn
\* criteria value
InitFilter ==
    \E in \in FilterInputs :
        /\ pc = "filter"
        /\ query = <<113>>   \* "q"
        /\ sources = in[2].sources
        /\ entity_type_filter = in[2].entity_type
        /\ min_score = in[2].min_score
        /\ max_results = in[2].max_results
        /\ jurisdiction_filter = in[2].jurisdiction
        /\ date_range_filter = in[2].date_range
        /\ heap = <<in[1]>>
        /\ results = 1
        /\ filtered_results = 0
        /\ unlimited = 0
        /\ received = in[1]
        /\ clicked = NoClick
        /\ search_outcome = "ok"
        /\ history = <<>>
        /\ display = <<>>
        /\ df_export = NoExport
        /\ comparison_list = <<>>
        /\ comp_df = <<>>
        /\ handed = <<>>
        /\ downloads = NoDownloads
        /\ notices = {}

NextFilter == FilterStep \/ LimitStep

SpecFilter == InitFilter /\ [][NextFilter]_vars

-----------------------------------------------------------------------------
(* The limit alone: the slice applied to a drawn list, and applied again *)

\* the values of max_count: the least and the default of "Maximum Results",
\* and 1, which the slice accepts as any other count (the widget does not)
CountPool == {1, 5, 20}

LimitInputs ==
    (ShortLists \X CountPool) \cup (LongLists \X (CountPool \ {1}))

\* the slice applied to its own result
LimitAgain ==
    /\ pc = "history"
    /\ LET f == Slice([ref |-> filtered_results, heap |-> heap], max_results)
       IN  /\ heap' = f.heap
           /\ filtered_results' = f.ref
    /\ pc' = "again"
    /\ UNCHANGED <<query, sources, entity_type_filter, min_score, max_results,
                   jurisdiction_filter, date_range_filter, results, unlimited,
                   received, uivars>>

InitLimit ==
    \E in \in LimitInputs :
        /\ pc = "limit"
        /\ query = <<113>>   \* "q"
        /\ sources = <<>>
        /\ entity_type_filter = "All"
        /\ min_score = 0
        /\ max_results = in[2]
        /\ jurisdiction_filter = EmptyStr
        /\ date_range_filter = AllTime
        /\ heap = <<in[1]>>
        /\ results = 1
        /\ filtered_results = 1
        /\ unlimited = 1
        /\ received = in[1]
        /\ clicked = NoClick
        /\ search_outcome = "ok"
        /\ history = <<>>
        /\ display = <<>>
        /\ df_export = NoExport
        /\ comparison_list = <<>>
        /\ comp_df = <<>>
        /\ handed = <<>>
        /\ downloads = NoDownloads
        /\ notices = {}

NextLimit == LimitStep \/ LimitAgain

SpecLimit == InitLimit /\ [][NextLimit]_vars

-----------------------------------------------------------------------------
(* The run of main: one execution of the script from top to bottom *)

ICIJ_NODE_URL ==
    <<104, 116, 116, 112, 115, 58, 47, 47, 111, 102, 102, 115, 104, 111, 114, 101, 108, 101, 97, 107, 115, 46, 105, 99, 105, 106, 46, 111, 114, 103, 47, 110, 111, 100, 101, 115, 47>>   \* "https://offshoreleaks.icij.org/nodes/"

\* ','.join(sources) if sources else ''
RECURSIVE Join(_)
Join(labels) ==
    IF labels = <<>> THEN EmptyStr
    ELSE IF Len(labels) = 1 THEN labels[1]
    ELSE labels[1] \o <<44>> \o Join(Tail(labels))

\* r.get('types', [{}])[0].get('name', 'Entity') if r.get('types') else 'Entity'
entity_type(r) ==
    IF "types" \in DOMAIN r /\ r.types # <<>>
    THEN Get(r.types[1], "name", "Entity")
    ELSE "Entity"

\* the values a result card is rendered from
Card(r) ==
    [entity_name |-> Get(r, "name", <<85, 110, 107, 110, 111, 119, 110, 32, 69, 110, 116, 105, 116, 121>>),   \* "Unknown Entity"
     entity_id |-> Get(r, "id", EmptyStr),
     match_score |-> Get(r, "score", 0),
     description |-> Get(r, "description", EmptyStr),
     entity_type |-> entity_type(r)]

\* a DataFrame cell holding a value, and the cell of a missing key
Cell(x) == [kind |-> "value", value |-> x]
NaN == [kind |-> "NaN"]

\* pd.DataFrame(filtered_results): the columns are the keys of the records,
\* a record without the key has NaN in that column
Columns(rows) == UNION {DOMAIN rows[i] : i \in 1..Len(rows)}
DataFrameCell(r, column) == IF column \in DOMAIN r THEN Cell(r[column]) ELSE NaN

\* lambda x: x[0].get('name', 'Entity') if x and len(x) > 0 else 'Entity',
\* applied to a cell that is a list
ExportType(x) == IF x # <<>> THEN Get(x[1], "name", "Entity") ELSE "Entity"

\* mutant: the link is the id alone
ExportLinkNoBase(cell) == cell

\* lambda x: f"{ICIJ_NODE_URL}{x}", applied to a cell of the id column
ExportLink(cell) ==
    IF cell.kind = "NaN" THEN Cell(ICIJ_NODE_URL \o <<110, 97, 110>>)   \* "nan"
    ELSE Cell(ICIJ_NODE_URL \o cell.value)

\* datetime.now().strftime("%Y-%m-%d %H:%M:%S"): the clock is not modelled
Now == "%Y-%m-%d %H:%M:%S"

ExportRow(r, with_type, q) ==
    [column \in {"Entity Name", "Match Score", "ICIJ ID", "Search Query",
                 "Search Date", "ICIJ Link"}
                \cup (IF with_type THEN {"Type"} ELSE {}) |->
        CASE column = "Entity Name" -> DataFrameCell(r, "name")
          [] column = "Match Score" -> DataFrameCell(r, "score")
          [] column = "ICIJ ID" -> DataFrameCell(r, "id")
          [] column = "Type" -> Cell(ExportType(r.types))
          [] column = "Search Query" -> Cell(q)
          [] column = "Search Date" -> Cell(Now)
          [] column = "ICIJ Link" -> ExportLink(DataFrameCell(r, "id"))]

\* the export table of lines 889-903: df[['name', 'score', 'id']] raises
\* KeyError when no record has one of the three keys; the lambda of the type
\* column raises TypeError on the NaN of a record without 'types' (NaN is
\* truthy and has no len)
PrepareExport(rows, q) ==
    LET columns == Columns(rows)
    IN  IF ~({"name", "score", "id"} \subseteq columns)
        THEN [status |-> "KeyError"]
        ELSE IF "types" \in columns
                /\ \E i \in 1..Len(rows) : "types" \notin DOMAIN rows[i]
        THEN [status |-> "TypeError"]
        ELSE [status |-> "ok",
              columns |-> <<"Entity Name", "Match Score", "ICIJ ID">>
                          \o (IF "types" \in columns THEN <<"Type">> ELSE <<>>)
                          \o <<"Search Query", "Search Date", "ICIJ Link">>,
              rows |-> [i \in 1..Len(rows) |->
                           ExportRow(rows[i], "types" \in columns, q)]]

-----------------------------------------------------------------------------
(* The three export payloads *)

\* the characters of the strings that the model writes as strings: the
\* column titles, the type names, the formatted clock reading
Codes(s) ==
    CASE s = "Entity Name" -> <<69, 110, 116, 105, 116, 121, 32, 78, 97, 109, 101>>
      [] s = "Match Score" -> <<77, 97, 116, 99, 104, 32, 83, 99, 111, 114, 101>>
      [] s = "ICIJ ID" -> <<73, 67, 73, 74, 32, 73, 68>>
      [] s = "Type" -> <<84, 121, 112, 101>>
      [] s = "Search Query" -> <<83, 101, 97, 114, 99, 104, 32, 81, 117, 101, 114, 121>>
      [] s = "Search Date" -> <<83, 101, 97, 114, 99, 104, 32, 68, 97, 116, 101>>
      [] s = "ICIJ Link" -> <<73, 67, 73, 74, 32, 76, 105, 110, 107>>
      [] s = "Entity" -> <<69, 110, 116, 105, 116, 121>>
      [] s = "Officer" -> <<79, 102, 102, 105, 99, 101, 114>>
      [] s = "Intermediary" -> <<73, 110, 116, 101, 114, 109, 101, 100, 105, 97, 114, 121>>
      [] s = "Address" -> <<65, 100, 100, 114, 101, 115, 115>>
      [] s = "entity" -> <<101, 110, 116, 105, 116, 121>>
      \* strftime of the format: a reading of the clock, 19 characters
      [] s = "%Y-%m-%d %H:%M:%S" -> <<50, 48, 50, 54, 45, 48, 49, 45, 48, 49, 32, 48, 48, 58, 48, 48, 58, 48, 48>>
      [] s = "ICIJ Offshore Leaks Search Results" ->
             <<73, 67, 73, 74, 32, 79, 102, 102, 115, 104, 111, 114, 101, 32, 76, 101, 97, 107, 115, 32, 83, 101, 97, 114, 99, 104, 32, 82, 101, 115, 117, 108, 116, 115>>

\* str(n) of a natural number
RECURSIVE Str(_)
Str(n) == IF n < 10 THEN <<48 + n>> ELSE Str(n \div 10) \o <<48 + (n % 10)>>

\* the text of a cell as to_csv writes it: NaN as the empty text, a score as
\* an integer, or with ".0" when the score column has a NaN and so holds
\* floats
CellText(column, cell, floats) ==
    IF cell.kind = "NaN" THEN EmptyStr
    ELSE CASE column = "Match Score" ->
                 Str(cell.value) \o (IF floats THEN <<46, 48>> ELSE <<>>)
           [] column \in {"Type", "Search Date"} -> Codes(cell.value)
           [] OTHER -> cell.value

\* csv.writer with QUOTE_MINIMAL and doublequote: a field is put in quotes
\* when it has the delimiter, the quote character or a character of the
\* line terminator; from Python 3.13 also whenever it has "\r" or "\n"
NeedsQuotes(field, lineterminator, quotes_newlines) ==
    \E i \in 1..Len(field) :
        \/ field[i] \in {44, 34}
        \/ \E j \in 1..Len(lineterminator) : field[i] = lineterminator[j]
        \/ quotes_newlines /\ field[i] \in {10, 13}

RECURSIVE DoubleQuotes(_)
DoubleQuotes(field) ==
    IF field = <<>> THEN <<>>
    ELSE (IF Head(field) = 34 THEN <<34, 34>> ELSE <<Head(field)>>)
         \o DoubleQuotes(Tail(field))

CsvField(field, lineterminator, quotes_newlines) ==
    IF NeedsQuotes(field, lineterminator, quotes_newlines)
    THEN <<34>> \o DoubleQuotes(field) \o <<34>>
    ELSE field

\* writerow: the fields with commas between them, then the line terminator
RECURSIVE CsvRow(_, _, _)
CsvRow(fields, lineterminator, quotes_newlines) ==
    IF Len(fields) = 1
    THEN CsvField(fields[1], lineterminator, quotes_newlines) \o lineterminator
    ELSE CsvField(fields[1], lineterminator, quotes_newlines) \o <<44>>
         \o CsvRow(Tail(fields), lineterminator, quotes_newlines)

RECURSIVE Concat(_)
Concat(texts) == IF texts = <<>> THEN <<>> ELSE Head(texts) \o Concat(Tail(texts))

\* df_export.to_csv(index=False): the titles, then a line per row.  The line
\* terminator is os.linesep and what is quoted is the csv module's: both are
\* the running platform's, so both are arguments
to_csv(df, lineterminator, quotes_newlines) ==
    LET floats == \E i \in 1..Len(df.rows) : df.rows[i]["Match Score"].kind = "NaN"
        titles == [k \in 1..Len(df.columns) |-> Codes(df.columns[k])]
        line(i) == [k \in 1..Len(df.columns) |->
                       CellText(df.columns[k], df.rows[i][df.columns[k]], floats)]
    IN  CsvRow(titles, lineterminator, quotes_newlines)
        \o Concat([i \in 1..Len(df.rows) |->
                      CsvRow(line(i), lineterminator, quotes_newlines)])

\* ', '.join(sources) if sources else 'All'
RECURSIVE JoinOrAll(_)
JoinOrAll(labels) ==
    IF labels = <<>> THEN <<65, 108, 108>>   \* "All"
    ELSE IF Len(labels) = 1 THEN labels[1]
    ELSE labels[1] \o <<44, 32>> \o JoinOrAll(Tail(labels))

\* the cells of a row in the order of the columns
Values(df, columns) ==
    [i \in 1..Len(df.rows) |-> [k \in 1..Len(columns) |-> df.rows[i][columns[k]]]]

\* str(cell_value) of a value of df_export.values: "nan" for NaN, a score as
\* an integer, or with ".0" when the score column has a NaN and so holds
\* floats
ExcelStr(column, cell, floats) ==
    IF cell.kind = "NaN" THEN <<110, 97, 110>>   \* "nan"
    ELSE CellText(column, cell, floats)

\* the width without the cap
adjusted_widthNoCap(max_length) == max_length + 2

\* min(max_length + 2, 50)
adjusted_width(max_length) ==
    IF max_length + 2 < 50 THEN max_length + 2 ELSE 50

\* the cells that create_excel_export writes, each with the str() of its
\* value: the title, the query, the sources and the date in A1..A4, the
\* column titles in row start_row, the rows of df_export.values below
SheetCells(df, q, srcs, start_row) ==
    LET floats == \E i \in 1..Len(df.rows) : df.rows[i]["Match Score"].kind = "NaN"
        written == {<<r, 1>> : r \in 1..4}
                   \cup {<<start_row, k>> : k \in 1..Len(df.columns)}
                   \cup {<<start_row + i, k>> : i \in 1..Len(df.rows),
                                                k \in 1..Len(df.columns)}
    IN  [rc \in written |->
            CASE rc = <<1, 1>> -> Codes("ICIJ Offshore Leaks Search Results")
              [] rc = <<2, 1>> -> <<81, 117, 101, 114, 121, 58, 32>> \o q   \* "Query: "
              [] rc = <<3, 1>> ->
                    <<83, 111, 117, 114, 99, 101, 115, 58, 32>> \o JoinOrAll(srcs)   \* "Sources: "
              [] rc = <<4, 1>> -> <<68, 97, 116, 101, 58, 32>> \o Codes(Now)   \* "Date: "
              [] rc[1] = start_row -> Codes(df.columns[rc[2]])
              [] OTHER ->
                    ExcelStr(df.columns[rc[2]],
                             df.rows[rc[1] - start_row][df.columns[rc[2]]], floats)]

\* the loop over ws.columns: every cell of the column from row 1 to the last
\* row of the sheet, a cell that was never written having the value None
max_length(cells, column, max_row) ==
    LET lengths == {IF <<r, column>> \in DOMAIN cells
                    THEN Len(cells[<<r, column>>])
                    ELSE 4 : r \in 1..max_row}   \* len("None")
    IN  CHOOSE n \in lengths \cup {0} :
            \A m \in lengths \cup {0} : m <= n

\* create_excel_export: the sheet "Search Results" with the title in A1, the
\* query, the sources and the date in A2..A4, the column titles in row 6,
\* the rows of df_export from row 7, and the widths of the columns
create_excel_export(df, q, srcs) ==
    LET start_row == 6
        cells == SheetCells(df, q, srcs, start_row)
        max_row == start_row + Len(df.rows)
    IN  [title |-> "Search Results",
         A1 |-> "ICIJ Offshore Leaks Search Results",
         A2 |-> <<81, 117, 101, 114, 121, 58, 32>> \o q,   \* "Query: "
         A3 |-> <<83, 111, 117, 114, 99, 101, 115, 58, 32>> \o JoinOrAll(srcs),   \* "Sources: "
         A4 |-> Now,
         start_row |-> start_row,
         header |-> df.columns,
         body |-> Values(df, df.columns),
         cells |-> cells,
         widths |-> [k \in 1..Len(df.columns) |->
                        adjusted_width(max_length(cells, k, max_row))]]

\* create_pdf_export of df_export[['Entity Name', 'Match Score', 'ICIJ ID']]:
\* the title, the query, the sources, the number of rows, the date and the
\* table of the titles and the rows
create_pdf_export(df, q, srcs) ==
    [title |-> "ICIJ Offshore Leaks Search Report",
     query |-> q,
     sources |-> JoinOrAll(srcs),
     results_found |-> Len(df.rows),
     generated |-> Now,
     table_data |-> <<<<"Entity Name", "Match Score", "ICIJ ID">>>>
                    \o Values(df, <<"Entity Name", "Match Score", "ICIJ ID">>)]

\* os.linesep, the default line terminator of to_csv: "\n", as on every
\* platform but Windows (there it is "\r\n", and "\r" is then one of the
\* characters that put a field in quotes)
LineSeps == {<<10>>}

\* one row of comparison_data
ComparisonRow(entity) ==
    [Name |-> Get(entity, "name", <<85, 110, 107, 110, 111, 119, 110>>),   \* "Unknown"
     Type |-> entity_type(entity),
     MatchScore |-> Get(entity, "score", 0),
     ID |-> Get(entity, "id", EmptyStr),
     Description |-> Get(entity, "description", <<78, 47, 65>>)]   \* "N/A"

\* list.pop(idx - 1), idx counted from 1
Pop(xs, idx) == SubSeq(xs, 1, idx - 1) \o SubSeq(xs, idx + 1, Len(xs))

\* xs.append(r) whether r is in xs or not
AppendAlways(xs, r) == Append(xs, r)

\* xs.append(r) unless r is in xs
AppendIfNew(xs, r) ==
    IF \E i \in 1..Len(xs) : xs[i] = r THEN xs ELSE Append(xs, r)

\* the most rows the search_history table is let grow to
MaxHistory == 1

QueryPool == {EmptyStr, <<113>>}   \* "", "q"
MainRecordPool == {Alpha, Bare}
\* a list longer than the least "Maximum Results"
LongAnswer == <<NameOnly>> \o [i \in 1..(LongLen - 1) |-> Alpha]
\* what the provider answers: a list of records that is not empty
MainLists ==
    {<<r>> : r \in MainRecordPool}
    \cup {<<Alpha, Bare>>, <<NameOnly, Alpha>>, LongAnswer}
MainCriteriaPool ==
    Criteria({<<>>}, {"All", "Entity"}, {0}, {EmptyStr}, {AllTime}, {20})
    \cup Criteria({<<PanamaPapers, PandoraPapers>>}, {"All"}, {0}, {EmptyStr},
                  {AllTime}, {5})
\* how the upstream call ends without a list: no "q0" or no "result" in the
\* answer, a timeout, a connection error, an HTTP error status
\* (raise_for_status), any other exception
SearchFailures ==
    {"no result", "Timeout", "ConnectionError", "HTTPError", "Exception"}

\* what the upstream call can do: an answer with a list under "q0" and
\* "result", empty when nothing matched, or one of the failures
Upstream ==
    {[kind |-> "ok", result |-> answer] : answer \in MainLists \cup {<<>>}}
    \cup {[kind |-> failure] : failure \in SearchFailures}

\* mutant: no `except Exception` clause
search_icij_databaseNoCatchAll(upstream) ==
    CASE upstream.kind = "ok" /\ upstream.result # <<>> ->
            [raised |-> FALSE, none |-> FALSE, value |-> upstream.result, errors |-> {}]
      [] upstream.kind = "ok" /\ upstream.result = <<>> ->
            [raised |-> FALSE, none |-> TRUE, errors |-> {}]
      [] upstream.kind = "no result" ->
            [raised |-> FALSE, none |-> TRUE, errors |-> {}]
      [] upstream.kind = "Timeout" ->
            [raised |-> FALSE, none |-> TRUE, errors |-> {"Search timed out"}]
      [] upstream.kind \in {"ConnectionError", "HTTPError"} ->
            [raised |-> FALSE, none |-> TRUE,
             errors |-> {"Error connecting to ICIJ database"}]
      [] OTHER ->
            [raised |-> TRUE, none |-> FALSE, errors |-> {}]

\* mutant: the list of the answer is returned whenever the answer has one,
\* the empty list too (no `and data["q0"]["result"]`)
search_icij_databaseAnyResult(upstream) ==
    CASE upstream.kind = "ok" ->
            [raised |-> FALSE, none |-> FALSE, value |-> upstream.result, errors |-> {}]
      [] upstream.kind = "no result" ->
            [raised |-> FALSE, none |-> TRUE, errors |-> {}]
      [] upstream.kind = "Timeout" ->
            [raised |-> FALSE, none |-> TRUE, errors |-> {"Search timed out"}]
      [] upstream.kind \in {"ConnectionError", "HTTPError"} ->
            [raised |-> FALSE, none |-> TRUE,
             errors |-> {"Error connecting to ICIJ database"}]
      [] OTHER ->
            [raised |-> FALSE, none |-> TRUE,
             errors |-> {"An unexpected error occurred"}]

\* search_icij_database: the list of the answer when it is not empty, or
\* None: with no st.error when the answer has no result or an empty one,
\* after st.error otherwise (Timeout first,
\* then RequestException, of which ConnectionError and HTTPError are
\* subclasses, then Exception); no exception leaves the function
search_icij_database(upstream) ==
    CASE upstream.kind = "ok" /\ upstream.result # <<>> ->
            [raised |-> FALSE, none |-> FALSE, value |-> upstream.result, errors |-> {}]
      [] upstream.kind = "ok" /\ upstream.result = <<>> ->
            [raised |-> FALSE, none |-> TRUE, errors |-> {}]
      [] upstream.kind = "no result" ->
            [raised |-> FALSE, none |-> TRUE, errors |-> {}]
      [] upstream.kind = "Timeout" ->
            [raised |-> FALSE, none |-> TRUE, errors |-> {"Search timed out"}]
      [] upstream.kind \in {"ConnectionError", "HTTPError"} ->
            [raised |-> FALSE, none |-> TRUE,
             errors |-> {"Error connecting to ICIJ database"}]
      [] OTHER ->
            [raised |-> FALSE, none |-> TRUE,
             errors |-> {"An unexpected error occurred"}]

Widgets ==
    [sources |-> sources, entity_type |-> entity_type_filter,
     min_score |-> min_score, jurisdiction |-> jurisdiction_filter,
     date_range |-> date_range_filter, max_results |-> max_results]

\* the buttons the page rendered by the last run offers
Buttons ==
    {[button |-> "add", idx |-> i] : i \in 1..Len(display)}
    \cup {[button |-> "remove", idx |-> i] : i \in 1..Len(comp_df)}
    \cup (IF comp_df # <<>> THEN {[button |-> "clear"]} ELSE {})

\* the exception boxes: an exception that leaves main ends the run
Exceptions ==
    {"exception in init_database", "exception in search_icij_database",
     "exception in the export preparation", "exception in create_excel_export",
     "exception in create_pdf_export"}

\* Streamlit starts a run of main: after a widget was changed, after a
\* button was clicked (the widgets keep their values), or on st.rerun().
\* init_database() comes first and catches nothing: when sqlite3 raises in
\* it (a database file that cannot be opened or written), the run ends there
Rerun ==
    /\ pc \in {"idle", "restart"}
    /\ \E q \in QueryPool, c \in MainCriteriaPool, b \in Buttons \cup {NoClick},
          created \in BOOLEAN :
        /\ pc = "restart" => b = NoClick
        /\ (pc = "restart" \/ b # NoClick) => q = query /\ c = Widgets
        /\ q # EmptyStr => Len(history) < MaxHistory
        /\ query' = q
        /\ sources' = c.sources
        /\ entity_type_filter' = c.entity_type
        /\ min_score' = c.min_score
        /\ max_results' = c.max_results
        /\ jurisdiction_filter' = c.jurisdiction
        /\ date_range_filter' = c.date_range
        /\ clicked' = b
        /\ pc' = IF ~created THEN "idle"
                 ELSE IF q # EmptyStr THEN "search" ELSE "compare"
        /\ notices' = IF created THEN {} ELSE {"exception in init_database"}
    /\ heap' = <<>>
    /\ results' = 0
    /\ filtered_results' = 0
    /\ unlimited' = 0
    /\ received' = <<>>
    /\ search_outcome' = "none"
    /\ display' = <<>>
    /\ df_export' = NoExport
    /\ comp_df' = <<>>
    /\ handed' = <<>>
    /\ downloads' = NoDownloads
    /\ UNCHANGED <<history, comparison_list>>

\* results = search_icij_database(query); if results:
Search ==
    /\ pc = "search"
    /\ \E upstream \in Upstream :
        LET found == search_icij_database(upstream)
        IN  /\ search_outcome' = upstream.kind
            /\ IF found.raised
               THEN \* an exception out of the call ends the run
                    /\ notices' = {"exception in search_icij_database"}
                    /\ pc' = "idle"
                    /\ UNCHANGED <<heap, results, received>>
               ELSE IF found.none
               THEN /\ notices' = found.errors \cup {"No results found for the query"}
                    /\ results' = 0
                    /\ pc' = "compare"
                    /\ UNCHANGED <<heap, received>>
               ELSE IF found.value = <<>>
               THEN \* `if results:` is false of an empty list too
                    /\ heap' = <<found.value>>
                    /\ results' = 1
                    /\ received' = found.value
                    /\ notices' = {"No results found for the query"}
                    /\ pc' = "compare"
               ELSE /\ heap' = <<found.value>>
                    /\ results' = 1
                    /\ received' = found.value
                    /\ pc' = "filter"
                    /\ UNCHANGED notices
    /\ UNCHANGED <<query, sources, entity_type_filter, min_score, max_results,
                   jurisdiction_filter, date_range_filter, filtered_results,
                   unlimited, clicked, history, display, df_export,
                   comparison_list, comp_df, handed, downloads>>

\* mutant: the count is taken before the limit
HistoryArgumentsBeforeLimit ==
    [query |-> query, sources |-> sources,
     results_count |-> Len(heap[unlimited])]

\* the arguments of save_search_history(query, sources, len(filtered_results))
HistoryArguments ==
    [query |-> query, sources |-> sources,
     results_count |-> Len(heap[filtered_results])]

\* save_search_history(query, sources, len(filtered_results)): the INSERT, or
\* an exception that is caught and shown; then `if filtered_results:`
SaveHistory ==
    /\ pc = "history"
    /\ handed' = Append(handed, HistoryArguments)
    /\ \/ /\ history' = Append(history,
                               [query |-> HistoryArguments.query,
                                sources |-> Join(HistoryArguments.sources),
                                results_count |-> HistoryArguments.results_count])
          /\ notices' =
                IF heap[filtered_results] # <<>> THEN notices
                ELSE notices \cup {"No results found matching the selected filters"}
       \/ /\ UNCHANGED history
          /\ notices' =
                notices \cup {"Error saving search history"}
                \cup (IF heap[filtered_results] # <<>> THEN {}
                      ELSE {"No results found matching the selected filters"})
    /\ pc' = IF heap[filtered_results] # <<>> THEN "display" ELSE "compare"
    /\ UNCHANGED <<query, sources, entity_type_filter, min_score, max_results,
                   jurisdiction_filter, date_range_filter, heap, results,
                   filtered_results, unlimited, received, clicked,
                   search_outcome, display, df_export, comparison_list,
                   comp_df, downloads>>

\* the loop over filtered_results: a card for each record, and the record
\* whose Add button was clicked joins the comparison list
Display ==
    /\ pc = "display"
    /\ display' = [i \in 1..Len(heap[filtered_results]) |->
                      Card(heap[filtered_results][i])]
    /\ comparison_list' =
          IF clicked.button = "add" /\ clicked.idx <= Len(heap[filtered_results])
          THEN AppendIfNew(comparison_list, heap[filtered_results][clicked.idx])
          ELSE comparison_list
    /\ pc' = "export"
    /\ UNCHANGED <<notices, handed, downloads>>
    /\ UNCHANGED <<query, sources, entity_type_filter, min_score, max_results,
                   jurisdiction_filter, date_range_filter, heap, results,
                   filtered_results, unlimited, received, clicked,
                   search_outcome, history, df_export, comp_df>>

\* the export table is prepared; an exception raised there ends the run
Export ==
    /\ pc = "export"
    /\ df_export' = PrepareExport(heap[filtered_results], query)
    /\ pc' = IF df_export'.status = "ok" THEN "downloads" ELSE "idle"
    /\ notices' = IF df_export'.status = "ok" THEN notices
                  ELSE notices \cup {"exception in the export preparation"}
    /\ UNCHANGED <<handed, downloads>>
    /\ UNCHANGED <<query, sources, entity_type_filter, min_score, max_results,
                   jurisdiction_filter, date_range_filter, heap, results,
                   filtered_results, unlimited, received, clicked,
                   search_outcome, history, display, comparison_list, comp_df>>

\* the characters openpyxl refuses in a cell (IllegalCharacterError): the
\* control characters other than tab, line feed and carriage return
IllegalInExcel(text) ==
    \E i \in 1..Len(text) : text[i] < 32 /\ text[i] \notin {9, 10, 13}

\* the loop of ws.cell(..., value=cell_value) meets a text it refuses
ExcelRaises(df, q) ==
    \/ IllegalInExcel(q)
    \/ \E i \in 1..Len(df.rows) :
          \E column \in {"Entity Name", "ICIJ ID", "ICIJ Link"} :
              /\ df.rows[i][column].kind = "value"
              /\ IllegalInExcel(df.rows[i][column].value)

\* Paragraph(f"<b>Search Query:</b> {query}") parses its text as markup and
\* raises ValueError on a tag that is opened and not closed
PdfRaises(q) ==
    Contains(<<60, 98, 62>>, q) /\ ~Contains(<<60, 47, 98, 62>>, q)   \* "<b>", "</b>"

\* the export options: the three payloads are built one after the other,
\* each just before its download button; an exception in one of them leaves
\* main and ends the run
ExportOptions ==
    /\ pc = "downloads"
    /\ \E lineterminator \in LineSeps, quotes_newlines \in BOOLEAN :
        LET csv == to_csv(df_export, lineterminator, quotes_newlines)
        IN  IF ExcelRaises(df_export, query)
            THEN /\ downloads' = [csv |-> csv]
                 /\ notices' = notices \cup {"exception in create_excel_export"}
                 /\ pc' = "idle"
            ELSE IF PdfRaises(query)
            THEN /\ downloads' =
                       [csv |-> csv,
                        excel |-> create_excel_export(df_export, query, sources)]
                 /\ notices' = notices \cup {"exception in create_pdf_export"}
                 /\ pc' = "idle"
            ELSE /\ downloads' =
                       [csv |-> csv,
                        excel |-> create_excel_export(df_export, query, sources),
                        pdf |-> create_pdf_export(df_export, query, sources)]
                 /\ pc' = "compare"
                 /\ UNCHANGED notices
    /\ UNCHANGED <<query, sources, entity_type_filter, min_score, max_results,
                   jurisdiction_filter, date_range_filter, heap, results,
                   filtered_results, unlimited, received, clicked,
                   search_outcome, history, display, df_export,
                   comparison_list, comp_df, handed>>

\* tab3: Clear All, the comparison table, Remove
CompareTab ==
    /\ pc = "compare"
    /\ IF comparison_list = <<>>
       THEN /\ pc' = "idle"
            /\ UNCHANGED <<comparison_list, comp_df>>
       ELSE IF clicked.button = "clear"
       THEN /\ comparison_list' = <<>>
            /\ pc' = "restart"
            /\ UNCHANGED comp_df
       ELSE /\ comp_df' = [i \in 1..Len(comparison_list) |->
                              ComparisonRow(comparison_list[i])]
            /\ IF clicked.button = "remove" /\ clicked.idx <= Len(comparison_list)
               THEN /\ comparison_list' = Pop(comparison_list, clicked.idx)
                    /\ pc' = "restart"
               ELSE /\ pc' = "idle"
                    /\ UNCHANGED comparison_list
    /\ UNCHANGED <<notices, handed, downloads>>
    /\ UNCHANGED <<query, sources, entity_type_filter, min_score, max_results,
                   jurisdiction_filter, date_range_filter, heap, results,
                   filtered_results, unlimited, received, clicked,
                   search_outcome, history, display, df_export>>

\* the session before the first run of main
Init ==
    /\ pc = "idle"
    /\ query = EmptyStr
    /\ sources = <<>>
    /\ entity_type_filter = "All"
    /\ min_score = 0
    /\ max_results = 20
    /\ jurisdiction_filter = EmptyStr
    /\ date_range_filter = AllTime
    /\ heap = <<>>
    /\ results = 0
    /\ filtered_results = 0
    /\ unlimited = 0
    /\ received = <<>>
    /\ clicked = NoClick
    /\ search_outcome = "none"
    /\ history = <<>>
    /\ display = <<>>
    /\ df_export = NoExport
    /\ comparison_list = <<>>
    /\ comp_df = <<>>
    /\ handed = <<>>
    /\ downloads = NoDownloads
    /\ notices = {}

Next ==
    \/ Rerun
    \/ Search
    \/ FilterStep
    \/ LimitStep
    \/ SaveHistory
    \/ Display
    \/ Export
    \/ ExportOptions
    \/ CompareTab

Spec == Init /\ [][Next]_vars

-----------------------------------------------------------------------------
(* apply_filters alone, applied to a drawn list and then to its own result *)

\* apply_filters applied to its own result, with the same criteria
FilterAgain ==
    /\ pc = "limit"
    /\ LET f == apply_filters(heap, filtered_results, sources, entity_type_filter,
                              min_score, jurisdiction_filter, date_range_filter)
       IN  /\ heap' = f.heap
           /\ filtered_results' = f.ref
    /\ pc' = "again"
    /\ UNCHANGED <<query, sources, entity_type_filter, min_score, max_results,
                   jurisdiction_filter, date_range_filter, results, unlimited,
                   received, uivars>>

NextRefilter == FilterStep \/ FilterAgain

SpecRefilter == InitFilter /\ [][NextRefilter]_vars

-----------------------------------------------------------------------------
(* The export alone: the export table and the three payloads of a drawn list *)

\* a record with the given name
Named(id, name) == [id |-> id, name |-> name, score |-> 90]

\* names with the delimiter, a quote, a line feed, a carriage return and a
\* vertical tab; a record with no name; a record with no score; a long id
ExportRecordPool ==
    {Named(<<110, 49>>, <<65>>),            \* "n1", "A"
     Named(<<110, 50>>, <<97, 44, 98>>),    \* "n2", "a,b"
     Named(<<110, 51>>, <<113, 34, 116>>),  \* "n3", "q\"t"
     Named(<<110, 52>>, <<108, 10, 109>>),  \* "n4", "l\nm"
     Named(<<110, 53>>, <<99, 13, 100>>),   \* "n5", "c\rd"
     Named(<<110, 54>>, <<118, 11, 116>>),  \* "n6", "v\x0bt"
     [id |-> <<110, 55>>, score |-> 7],     \* "n7"
     [id |-> <<110, 56>>, name |-> <<66>>], \* "n8", "B"
     \* an id of 12 characters: its link has 49
     Named(<<110, 57, 48, 48, 48, 48, 48, 48, 48, 48, 48, 48>>, <<67>>)}   \* "n90000000000", "C"

ExportLists == ListsUpTo(ExportRecordPool, MaxLen) \ {<<>>}

\* a plain query and one with a bold tag that is not closed
ExportQueries == {<<113>>, <<60, 98, 62>>}   \* "q", "<b>"

\* main at line 889, the drawn list having been filtered, limited, handed to
\* the history and displayed
InitExport ==
    \E xs \in ExportLists, q \in ExportQueries :
        /\ pc = "export"
        /\ query = q
        /\ sources = <<>>
        /\ entity_type_filter = "All"
        /\ min_score = 0
        /\ max_results = 20
        /\ jurisdiction_filter = EmptyStr
        /\ date_range_filter = AllTime
        /\ heap = <<xs, xs>>
        /\ results = 1
        /\ filtered_results = 2
        /\ unlimited = 1
        /\ received = xs
        /\ clicked = NoClick
        /\ search_outcome = "ok"
        /\ history = <<[query |-> q, sources |-> EmptyStr, results_count |-> Len(xs)]>>
        /\ display = [i \in 1..Len(xs) |-> Card(xs[i])]
        /\ df_export = NoExport
        /\ comparison_list = <<>>
        /\ comp_df = <<>>
        /\ handed = <<[query |-> q, sources |-> <<>>, results_count |-> Len(xs)]>>
        /\ downloads = NoDownloads
        /\ notices = {}

NextExport == Export \/ ExportOptions

SpecExport == InitExport /\ [][NextExport]_vars

-----------------------------------------------------------------------------
(* What the claims speak of *)

\* apply_filters has returned
Filtered == pc \in {"limit", "history"}

\* apply_filters has just returned
JustFiltered == pc = "limit"

\* the list apply_filters returned
Output == heap[unlimited]

NoConstraint ==
    /\ sources = <<>>
    /\ entity_type_filter = "All"
    /\ min_score = 0
    /\ jurisdiction_filter = EmptyStr
    /\ date_range_filter = AllTime

\* the five predicates, each true of every record when its criterion is at
\* its no-constraint value
SourcePasses(r) == sources = <<>> \/ SourceTest(r, sources)
TypePasses(r) == entity_type_filter = "All" \/ TypeTest(r, entity_type_filter)
ScorePasses(r) == ~(min_score > 0) \/ ScoreTest(r, min_score)
JurisdictionPasses(r) ==
    jurisdiction_filter = EmptyStr \/ JurisdictionTest(r, jurisdiction_filter)
DatePasses(r) ==
    \/ date_range_filter = AllTime
    \/ date_source_map(date_range_filter) = <<>>
    \/ DateTest(r, date_source_map(date_range_filter))

PassesAll(r) ==
    /\ SourcePasses(r)
    /\ TypePasses(r)
    /\ ScorePasses(r)
    /\ JurisdictionPasses(r)
    /\ DatePasses(r)

\* the five stages by number, and their application in a given order
Stage(k, f) ==
    CASE k = 1 -> SourceFilter(f, sources)
      [] k = 2 -> TypeFilter(f, entity_type_filter)
      [] k = 3 -> ScoreFilter(f, min_score)
      [] k = 4 -> JurisdictionFilter(f, jurisdiction_filter)
      [] k = 5 -> DateFilter(f, date_range_filter)

InOrder(order, f) ==
    LET f1 == Stage(order[1], f)
        f2 == Stage(order[2], f1)
        f3 == Stage(order[3], f2)
        f4 == Stage(order[4], f3)
        f5 == Stage(order[5], f4)
    IN  f5

\* the 120 orders of the five stages
StageOrders == {<<p[1], p[2], p[3], p[4], p[5]>> : p \in Permutations(1..5)}

\* the fallbacks of the data model
EffectiveName(r) ==
    IF "name" \in DOMAIN r THEN r.name
    ELSE <<85, 110, 107, 110, 111, 119, 110, 32, 69, 110, 116, 105, 116, 121>>   \* "Unknown Entity"
EffectiveScore(r) == IF "score" \in DOMAIN r THEN r.score ELSE 0
EffectiveDescription(r) == IF "description" \in DOMAIN r THEN r.description ELSE <<>>
HasTypeName(r) ==
    "types" \in DOMAIN r /\ Len(r.types) > 0 /\ "name" \in DOMAIN r.types[1]
NoTypes(r) == "types" \notin DOMAIN r \/ Len(r.types) = 0
EffectiveType(r) == IF HasTypeName(r) THEN r.types[1].name ELSE "Entity"

\* two characters that are the same letter, whatever their case
SameIgnoringCase(a, b) ==
    \/ a = b
    \/ a >= 65 /\ a <= 90 /\ b = a + 32
    \/ b >= 65 /\ b <= 90 /\ a = b + 32

\* needle occurs in hay, ignoring case
OccursIgnoringCase(needle, hay) ==
    \E i \in 0..(Len(hay) - Len(needle)) :
        \A j \in 1..Len(needle) : SameIgnoringCase(needle[j], hay[i + j])

-----------------------------------------------------------------------------
(* C1 *)

\* C1: with every criterion at its no-constraint value (no source, type "All",
\* minimum score 0, no jurisdiction, "All Time") apply_filters returns exactly
\* the records it was given, in the same order, the empty list included.
C1_NoConstraintIsIdentity ==
    (Filtered /\ NoConstraint) => Output = received

C1_Witness ==
    /\ Filtered /\ NoConstraint
    /\ Len(received) = 2
    /\ received[1] # received[2]
    /\ Output = received

(* C2 *)

\* C2: the output of apply_filters is the subsequence of its input, in the
\* input's order, of the records that pass every active predicate (their
\* conjunction), and applying the five stages in any other order gives the
\* same list.
C2_ConjunctionInAnyOrder ==
    /\ Filtered => Output = SelectSeq(received, PassesAll)
    /\ JustFiltered =>
          \A order \in StageOrders :
            LET f == InOrder(order, [ref |-> 1, heap |-> <<received>>])
            IN  f.heap[f.ref] = Output

\* each of two records is removed by a different predicate
C2_Witness ==
    /\ Filtered
    /\ sources # <<>> /\ min_score > 0
    /\ Len(received) = 2
    /\ Output = <<>>
    /\ \E i \in 1..2 : SourcePasses(received[i]) /\ ~ScorePasses(received[i])
    /\ \E i \in 1..2 : ~SourcePasses(received[i]) /\ ScorePasses(received[i])

(* C3 *)

\* the entity-type predicate as the claim states it
ClaimTypePasses(r) ==
    entity_type_filter = "All" \/ EffectiveType(r) = entity_type_filter

\* C3: with a type constraint other than "All", a record passes the
\* entity-type filter iff its effective type (the name of the first types
\* element, "Entity" when types is empty or absent) equals the constraint;
\* a record with no types field passes the constraint "Entity".
C3_TypeFilterUsesEffectiveType ==
    (/\ Filtered
     /\ entity_type_filter # "All"
     /\ \A i \in 1..Len(received) : HasTypeName(received[i]) \/ NoTypes(received[i]))
    => Output = SelectSeq(received,
                          LAMBDA r : /\ SourcePasses(r) /\ ClaimTypePasses(r)
                                     /\ ScorePasses(r) /\ JurisdictionPasses(r)
                                     /\ DatePasses(r))

(* C5 *)

\* C5: the list apply_filters returns is always a new object, never the list
\* it was given, also when no predicate is active.
C5_OutputIsNewList ==
    Filtered => unlimited # results

(* C6 *)

\* C6: neither apply_filters nor the slice changes the list received from the
\* provider: in every state it has the length, order and records it was
\* received with.
C6_InputUnchanged ==
    results # 0 => heap[results] = received

\* after filter and limit, the returned list having been the input itself and
\* the slice having cut it
C6_Witness ==
    /\ pc = "history"
    /\ unlimited = results
    /\ Len(heap[filtered_results]) < Len(received)
    /\ heap[filtered_results] = SubSeq(received, 1, max_results)

(* C7 *)

\* the score predicate as the claim states it
ClaimScorePasses(r) == min_score > 0 => EffectiveScore(r) >= min_score

ClaimSourcePasses(r) ==
    sources # <<>> =>
        \E k \in 1..Len(sources) :
            \/ OccursIgnoringCase(sources[k], EffectiveDescription(r))
            \/ OccursIgnoringCase(sources[k], EffectiveName(r))

UpperChar(c) ==
    IF c >= 97 /\ c <= 122 THEN c - 32
    ELSE IF c = DotlessI THEN 73 ELSE c

upper(s) == [i \in 1..Len(s) |-> UpperChar(s[i])]

\* a text with only its letter case changed: as it is, in capitals, in small
\* letters
Recase(m, s) == CASE m = 0 -> s [] m = 1 -> upper(s) [] m = 2 -> lower(s)

RecaseRecord(m, r) ==
    [k \in DOMAIN r |->
        IF k \in {"name", "description"} THEN Recase(m, r[k]) ELSE r[k]]

RecaseList(m, xs) == [i \in 1..Len(xs) |-> RecaseRecord(m, xs[i])]

RecaseLabels(m, labels) == [k \in 1..Len(labels) |-> Recase(m, labels[k])]

\* what apply_filters returns for a record list, a source list and a
\* jurisdiction, the other criteria being those of the state
FilterOf(xs, srcs, jurisdiction) ==
    LET f == apply_filters(<<xs>>, 1, srcs, entity_type_filter, min_score,
                           jurisdiction, date_range_filter)
    IN  f.heap[f.ref]

CaseInsensitive ==
    \A mr, ms, mj \in 0..2 :
        FilterOf(RecaseList(mr, received), RecaseLabels(ms, sources),
                 Recase(mj, jurisdiction_filter))
            = RecaseList(mr, Output)

IsAscii(s) == \A i \in 1..Len(s) : s[i] < 128

AllAscii ==
    /\ IsAscii(jurisdiction_filter)
    /\ \A k \in 1..Len(sources) : IsAscii(sources[k])
    /\ \A i \in 1..Len(received) :
          IsAscii(EffectiveName(received[i])) /\ IsAscii(EffectiveDescription(received[i]))

\* C9 as stated: changing only the letter case of the jurisdiction, of a
\* source label or of the records' name and description text leaves the
\* output of apply_filters unchanged (the same records are kept).
C9_CaseInsensitiveAnyText ==
    JustFiltered => CaseInsensitive

\* C9 as amended: the same, for text made of ASCII characters.
C9_CaseInsensitiveAscii ==
    (JustFiltered /\ AllAscii) => CaseInsensitive

\* a jurisdiction typed in small letters that keeps a record in whose text it
\* occurs only with a capital
C9_Witness ==
    /\ JustFiltered /\ AllAscii
    /\ jurisdiction_filter # EmptyStr
    /\ upper(jurisdiction_filter) # jurisdiction_filter
    /\ Len(received) = 2 /\ Len(Output) = 1
    /\ ~Contains(jurisdiction_filter, EffectiveDescription(Output[1]))
    /\ ~Contains(jurisdiction_filter, EffectiveName(Output[1]))

(* C10 *)

Buckets == {Bucket2021, Bucket2016, Bucket2013}

\* a label of the bucket's list occurs in the text, ignoring case
BucketLabelIn(text) ==
    \E k \in 1..Len(date_source_map(date_range_filter)) :
        OccursIgnoringCase(date_source_map(date_range_filter)[k], text)

\* the date-range predicate as the claim states it
ClaimDatePasses(r) ==
    date_range_filter \in Buckets => BucketLabelIn(EffectiveDescription(r))

\* C10: with one of the three buckets selected, a record passes the date-range
\* filter iff a label of the bucket's list occurs, ignoring case, in its
\* effective description; a label in the name alone does not pass.
C10_DateRangeFilter ==
    (Filtered /\ date_range_filter \in Buckets) =>
        /\ Output = SelectSeq(received,
                              LAMBDA r : /\ SourcePasses(r) /\ TypePasses(r)
                                         /\ ScorePasses(r) /\ JurisdictionPasses(r)
                                         /\ ClaimDatePasses(r))
        /\ \A i \in 1..Len(Output) : BucketLabelIn(EffectiveDescription(Output[i]))

\* the record with the label in its name alone is dropped, the record with
\* the label in its description, in capitals, is kept
C10_Witness ==
    /\ Filtered /\ date_range_filter \in Buckets
    /\ sources = <<>> /\ entity_type_filter = "All" /\ min_score = 0
    /\ jurisdiction_filter = EmptyStr
    /\ Len(received) = 2 /\ Output = <<received[2]>>
    /\ BucketLabelIn(EffectiveName(received[1]))
    /\ ~BucketLabelIn(EffectiveDescription(received[1]))

(* C4 *)

\* the record behind the i-th card, export row and comparison row
Shown(i) == heap[filtered_results][i]

\* the cards show the effective values
DisplayShowsEffective ==
    \A i \in 1..Len(display) :
        /\ display[i].entity_name = EffectiveName(Shown(i))
        /\ display[i].match_score = EffectiveScore(Shown(i))
        /\ display[i].description = EffectiveDescription(Shown(i))
        /\ display[i].entity_type = EffectiveType(Shown(i))

\* once the run is past the export preparation, there is an export table and
\* its rows carry the effective values
ExportShowsEffective ==
    df_export # NoExport =>
        /\ df_export.status = "ok"
        /\ \A i \in 1..Len(df_export.rows) :
            /\ df_export.rows[i]["Entity Name"] = Cell(EffectiveName(Shown(i)))
            /\ df_export.rows[i]["Match Score"] = Cell(EffectiveScore(Shown(i)))
            /\ "Type" \in DOMAIN df_export.rows[i] =>
                  df_export.rows[i]["Type"] = Cell(EffectiveType(Shown(i)))

\* the comparison table of a run that went to its end shows the effective
\* values
ComparisonShowsEffective ==
    (pc = "idle" /\ Len(comp_df) = Len(comparison_list)) =>
        \A i \in 1..Len(comp_df) :
            /\ comp_df[i].Name = EffectiveName(comparison_list[i])
            /\ comp_df[i].MatchScore = EffectiveScore(comparison_list[i])
            /\ comp_df[i].Description = EffectiveDescription(comparison_list[i])
            /\ comp_df[i].Type = EffectiveType(comparison_list[i])

\* the filters keep the records that pass on their effective values
FilterUsesEffective ==
    Filtered =>
        Output = SelectSeq(received,
                           LAMBDA r : /\ ClaimSourcePasses(r) /\ ClaimTypePasses(r)
                                      /\ ClaimScorePasses(r) /\ JurisdictionPasses(r)
                                      /\ ClaimDatePasses(r))

\* C4: for every record, the filter path, the result display, the export rows
\* and the comparison table all observe the same effective name, score,
\* description and type, each computed by the one stated fallback (name
\* "Unknown Entity", score 0, description "", type "Entity").
C4_SameEffectiveValuesEverywhere ==
    /\ FilterUsesEffective
    /\ DisplayShowsEffective
    /\ ExportShowsEffective
    /\ ComparisonShowsEffective

(* C11 *)

\* the limit has been applied to the drawn list
Limited == pc \in {"history", "again"}

\* the list the first limit returned
Once == heap[2]

\* C11: the limiter returns the first max_count records of its input in
\* their existing order, and the whole input when it has fewer than
\* max_count records; it never reorders by score.
C11_LimitIsPrefix ==
    Limited =>
        /\ Len(Once) = (IF max_results < Len(received) THEN max_results
                         ELSE Len(received))
        /\ \A i \in 1..Len(Once) : Once[i] = received[i]
        /\ Len(received) < max_results => Once = received

\* max_count 1 on two records of which the second has the higher score
C11_Witness ==
    /\ Limited
    /\ max_results = 1
    /\ Len(received) = 2
    /\ EffectiveScore(received[2]) > EffectiveScore(received[1])
    /\ Once = <<received[1]>>

(* C12 *)

\* C12: limiting is idempotent: the limit of a limited list, with the same
\* max_count, is that list.
C12_LimitIdempotent ==
    pc = "again" => heap[filtered_results] = Once

\* the first limit cut the list, the second found nothing to cut
C12_Witness ==
    /\ pc = "again"
    /\ max_results = 5
    /\ Len(received) > 5
    /\ Len(Once) = 5
    /\ heap[filtered_results] = Once

(* C13 *)

\* C13: apply_filters never returns more records than it was given.
C13_FilterNeverGrows ==
    Filtered => Len(Output) <= Len(received)

\* a threshold that one of two records meets
C13_Witness ==
    /\ Filtered
    /\ min_score > 0
    /\ Len(received) = 2
    /\ Len(Output) = 1

(* C14 *)

\* the upstream call of this run ended in an exception
UpstreamRaised == search_outcome \in SearchFailures \ {"no result"}

\* C14: a timeout, a connection failure, an HTTP error or any other
\* exception of the upstream call does not leave search_icij_database: the
\* call returns None and the run goes on as for zero records, with the
\* no-results message, no card, no export and no exception.
C14_UpstreamFailureIsNoResults ==
    UpstreamRaised =>
        /\ results = 0
        /\ notices \cap Exceptions = {}
        /\ "No results found for the query" \in notices
        /\ pc \in {"compare", "idle", "restart"}
        /\ display = <<>>
        /\ df_export = NoExport

\* a run whose upstream call raised an exception that is neither a timeout
\* nor a request error, gone to its end through the comparison tab
C14_Witness ==
    /\ search_outcome = "Exception"
    /\ pc = "idle"
    /\ results = 0
    /\ notices = {"An unexpected error occurred", "No results found for the query"}
    /\ comparison_list # <<>>
    /\ Len(comp_df) = Len(comparison_list)

(* C15 *)

\* the filter and the limit of this run are done and the history store has
\* been called
CycleDone == filtered_results # 0 /\ pc \notin {"limit", "history"}

\* the entry the claim states: the query, the selected sources and the number
\* of records left after filter and limit
ClaimedEntry ==
    [query |-> query, sources |-> sources,
     results_count |-> Len(heap[filtered_results])]

\* C15: after each completed filter+limit cycle, and before any result
\* display or export, the history store is handed exactly one entry with the
\* query, the selected source list and the size of the post-filter,
\* post-limit list (also when that size is 0); it is handed nothing before
\* the cycle is complete.
C15_HistoryHandedOnce ==
    /\ pc \in {"search", "filter", "limit", "history"} => handed = <<>>
    /\ CycleDone => handed = <<ClaimedEntry>>
    /\ (pc \in {"display", "export"} \/ display # <<>> \/ df_export # NoExport)
          => handed = <<ClaimedEntry>>
    /\ filtered_results = 0 => handed = <<>>

\* the limit cut the filtered list and the count handed over is the cap
C15_Witness ==
    /\ pc = "display"
    /\ display = <<>>
    /\ Len(heap[unlimited]) > max_results
    /\ handed = <<ClaimedEntry>>
    /\ handed[1].results_count = max_results

(* C16 *)

\* the cards of this run's filtered and limited list are on the page
ResultsDisplayed ==
    display = [i \in 1..Len(heap[filtered_results]) |-> Card(Shown(i))]

\* C16: a failure of a history or saved-search operation (the table
\* initialisation, the history write) never aborts the run: no run ends in
\* the exception of such an operation, and the filtered and limited results
\* are displayed although the history write failed.
C16_PersistenceFailureNeverAborts ==
    /\ "exception in init_database" \notin notices
    /\ ("Error saving search history" \in notices
        /\ pc \notin {"history", "display"}
        /\ heap[filtered_results] # <<>>) => ResultsDisplayed

\* the part of C16 about the history write: the run goes on and displays
\* the results
HistoryWriteFailureDisplays ==
    ("Error saving search history" \in notices
     /\ pc \notin {"history", "display"}
     /\ heap[filtered_results] # <<>>) => ResultsDisplayed

(* C17 *)

ExportFormats == {"csv", "excel", "pdf"}

\* the run ended in the exception of the making of this export format
ExportFailed(format) ==
    \/ format = "excel" /\ "exception in create_excel_export" \in notices
    \/ format = "pdf" /\ "exception in create_pdf_export" \in notices

\* C17: a failure while one export format is made is confined to that
\* export: the payloads of the other two formats are produced and offered,
\* and the cards of the result set stay on the page.
C17_ExportFailureConfined ==
    \A format \in ExportFormats :
        ExportFailed(format) =>
            /\ ExportFormats \ {format} \subseteq DOMAIN downloads
            /\ ResultsDisplayed

\* the part of C17 that holds: when the document cannot be made, the
\* delimited table and the spreadsheet have been produced and offered, and
\* whatever fails, the cards stay on the page
LaterFailureLeavesEarlierExports ==
    /\ ExportFailed("pdf") => {"csv", "excel"} \subseteq DOMAIN downloads
    /\ \A format \in ExportFormats : ExportFailed(format) => ResultsDisplayed

(* C18 *)

\* an export table was built in this run
ExportBuilt == df_export # NoExport /\ df_export.status = "ok"

\* C18: the export is built from the post-filter, post-limit list: one row
\* per record of that list, in its order, never more rows than "Maximum
\* Results", and the link of each row is the base URL followed by the
\* record's id.
C18_ExportRowsOfLimitedList ==
    ExportBuilt =>
        /\ heap[filtered_results] =
              SubSeq(SelectSeq(received, PassesAll), 1,
                     IF max_results < Len(SelectSeq(received, PassesAll))
                     THEN max_results
                     ELSE Len(SelectSeq(received, PassesAll)))
        /\ Len(df_export.rows) = Len(heap[filtered_results])
        /\ Len(df_export.rows) <= max_results
        /\ \A i \in 1..Len(df_export.rows) :
            /\ df_export.rows[i]["ICIJ ID"] = Cell(Shown(i).id)
            /\ df_export.rows[i]["Entity Name"] = DataFrameCell(Shown(i), "name")
            /\ df_export.rows[i]["ICIJ Link"] = Cell(ICIJ_NODE_URL \o Shown(i).id)

\* the limit cut the list, the rows are as many as the cap and the first two
\* are of different records
C18_Witness ==
    /\ ExportBuilt
    /\ Len(received) > max_results
    /\ Len(df_export.rows) = max_results
    /\ df_export.rows[1]["ICIJ ID"] # df_export.rows[2]["ICIJ ID"]
    /\ df_export.rows[2]["ICIJ Link"] = Cell(ICIJ_NODE_URL \o received[2].id)

(* C19 *)

\* a record of the exported list carries type data
SomeTypes ==
    \E i \in 1..Len(heap[filtered_results]) : "types" \in DOMAIN Shown(i)

\* C19: when at least one record of the exported list carries type data, the
\* export is produced and the Type value of each row is the record's
\* effective type, "Entity" for a record with no types field or an empty
\* types list.
C19_TypeColumnIsEffectiveType ==
    (df_export # NoExport /\ SomeTypes) =>
        /\ df_export.status = "ok"
        /\ \A i \in 1..Len(df_export.rows) :
              df_export.rows[i]["Type"] = Cell(EffectiveType(Shown(i)))

\* the part of C19 that holds: when every record of the list has a types
\* field, empty or not, the Type values are the effective types
TypeColumnWhenAllHaveTypes ==
    (df_export # NoExport
     /\ \A i \in 1..Len(heap[filtered_results]) : "types" \in DOMAIN Shown(i)) =>
        /\ df_export.status = "ok"
        /\ \A i \in 1..Len(df_export.rows) :
              df_export.rows[i]["Type"] = Cell(EffectiveType(Shown(i)))

(* C20 *)

\* a reader of the delimited format (csv.reader), one character at a time.
\* A field in quotes runs to its closing quote, a doubled quote in it is one
\* quote; outside quotes a comma ends the field and "\n", "\r" or "\r\n" ends
\* the row.
ReaderStart == [mode |-> "record", field |-> <<>>, row |-> <<>>, rows |-> <<>>]

ReadChar(st, c) ==
    LET endRow(next) ==
            [mode |-> next, field |-> <<>>, row |-> <<>>,
             rows |-> Append(st.rows, Append(st.row, st.field))]
        mode == IF st.mode = "eat" THEN "record" ELSE st.mode
    IN  CASE st.mode = "eat" /\ c = 10 -> [st EXCEPT !.mode = "record"]
          [] mode = "record" /\ c \in {10, 13} -> [st EXCEPT !.mode = "record"]
          [] mode \in {"record", "start"} /\ c = 34 -> [st EXCEPT !.mode = "quoted"]
          [] mode = "quoted" /\ c = 34 -> [st EXCEPT !.mode = "quote"]
          [] mode = "quoted" /\ c # 34 -> [st EXCEPT !.field = Append(@, c)]
          [] mode = "quote" /\ c = 34 ->
                [st EXCEPT !.mode = "quoted", !.field = Append(@, 34)]
          [] OTHER ->
                IF c = 44
                THEN [st EXCEPT !.mode = "start", !.field = <<>>,
                                !.row = Append(@, st.field)]
                ELSE IF c = 10 THEN endRow("record")
                ELSE IF c = 13 THEN endRow("eat")
                ELSE [st EXCEPT !.mode = "in", !.field = Append(@, c)]

ReaderModes == {"record", "start", "in", "quoted", "quote", "eat"}

\* the reader's state after the characters lo..hi of a text, the first half
\* read before the second
RECURSIVE ReadRange(_, _, _, _)
ReadRange(t, lo, hi, st) ==
    IF lo > hi THEN st
    ELSE IF lo = hi THEN ReadChar(st, t[lo])
    ELSE LET mid == (lo + hi) \div 2
             first == ReadRange(t, lo, mid, st)
         IN  IF first.mode \in ReaderModes
             THEN ReadRange(t, mid + 1, hi, first)
             ELSE first

\* the rows of fields of a payload
ParseCsv(t) ==
    LET st == ReadRange(t, 1, Len(t), ReaderStart)
    IN  IF st.mode \in {"record", "eat"} THEN st.rows
        ELSE Append(st.rows, Append(st.row, st.field))

\* the text of a parsed score is the score, written as an integer or as a
\* float
SameScore(text, cell) ==
    IF cell.kind = "NaN" THEN text = EmptyStr
    ELSE text \in {Str(cell.value), Str(cell.value) \o <<46, 48>>}

\* the text of a parsed name or id is the cell's text, the empty text for NaN
SameText(text, cell) ==
    IF cell.kind = "NaN" THEN text = EmptyStr ELSE text = cell.value

\* the payload parsed back has the rows of df_export, in their order, with
\* their names, scores and ids
RoundTrip ==
    LET parsed == ParseCsv(downloads.csv)
    IN  /\ Len(parsed) = Len(df_export.rows) + 1
        /\ \A i \in 1..Len(df_export.rows) :
            /\ Len(parsed[i + 1]) = Len(df_export.columns)
            /\ SameText(parsed[i + 1][1], df_export.rows[i]["Entity Name"])
            /\ SameScore(parsed[i + 1][2], df_export.rows[i]["Match Score"])
            /\ SameText(parsed[i + 1][3], df_export.rows[i]["ICIJ ID"])

\* C20: the delimited payload parsed back gives, for every row and in the
\* same order, the name, score and id of the export rows it was built from,
\* also when a name has the delimiter, a quote or a newline in it.
C20_CsvRoundTrip ==
    "csv" \in DOMAIN downloads => RoundTrip

\* a name of the export rows has a carriage return in it
CarriageReturnInName ==
    \E i \in 1..Len(df_export.rows) :
        /\ df_export.rows[i]["Entity Name"].kind = "value"
        /\ \E k \in 1..Len(df_export.rows[i]["Entity Name"].value) :
              df_export.rows[i]["Entity Name"].value[k] = 13

\* the part of C20 that holds: the round trip of the rows whose names have
\* no carriage return (the delimiter, a quote and a line feed included)
CsvRoundTripWithoutCarriageReturn ==
    ("csv" \in DOMAIN downloads /\ ~CarriageReturnInName) => RoundTrip

(* C21 *)

\* the length of the longest value of the cells written in a column
Longest(cells, k) ==
    LET lengths == {Len(cells[rc]) : rc \in {x \in DOMAIN cells : x[2] = k}}
    IN  CHOOSE n \in lengths : \A m \in lengths : m <= n

\* the k-th column of the sheet is wider than the cap allows
Capped(k) == Longest(downloads.excel.cells, k) + 2 > 50

\* C21: in the spreadsheet the metadata block is in rows 1 to 4 of the first
\* column and nothing else is above row 6, the column titles are in row 6,
\* the k-th export row is in row 6 + k with its values in the order of the
\* columns, and the width of every column is min(L + 2, 50), L the length of
\* the longest value of the column.
C21_SpreadsheetLayout ==
    "excel" \in DOMAIN downloads =>
        LET cells == downloads.excel.cells
            columns == df_export.columns
            rows == df_export.rows
            floats == \E i \in 1..Len(rows) : rows[i]["Match Score"].kind = "NaN"
        IN  /\ {rc \in DOMAIN cells : rc[1] < 6} = {<<r, 1>> : r \in 1..4}
            /\ {rc \in DOMAIN cells : rc[1] >= 6}
                   = (6..(6 + Len(rows))) \X (1..Len(columns))
            /\ \A k \in 1..Len(columns) : cells[<<6, k>>] = Codes(columns[k])
            /\ \A i \in 1..Len(rows), k \in 1..Len(columns) :
                   cells[<<6 + i, k>>] = ExcelStr(columns[k], rows[i][columns[k]], floats)
            /\ Len(downloads.excel.widths) = Len(columns)
            /\ \A k \in 1..Len(columns) :
                   LET L == Longest(cells, k)
                   IN  downloads.excel.widths[k] = IF L + 2 <= 50 THEN L + 2 ELSE 50

\* a spreadsheet of two rows with a column at the cap and a column below it
C21_Witness ==
    /\ "excel" \in DOMAIN downloads
    /\ Len(df_export.rows) >= 2
    /\ \E k \in 1..Len(df_export.columns) : Capped(k)
    /\ \E k \in 1..Len(df_export.columns) : ~Capped(k)

(* C22 *)

NoRecordTwice(xs) == \A i, j \in 1..Len(xs) : xs[i] = xs[j] => i = j

\* the record of the card whose Add button was clicked
AddedRecord == heap[filtered_results][clicked.idx]

\* the run is at the cards and the Add button of one of them was clicked
AddStep ==
    /\ pc = "display"
    /\ clicked.button = "add"
    /\ clicked.idx <= Len(heap[filtered_results])

\* the run is at the comparison tab, the list is not empty and this button
\* of the tab was clicked
TabStep(button) ==
    /\ pc = "compare"
    /\ comparison_list # <<>>
    /\ clicked.button = button

\* what a step does to the comparison list
ComparisonStep ==
    /\ NoRecordTwice(comparison_list')
    /\ AddStep =>
          IF \E i \in 1..Len(comparison_list) : comparison_list[i] = AddedRecord
          THEN comparison_list' = comparison_list
          ELSE comparison_list' = Append(comparison_list, AddedRecord)
    /\ TabStep("remove") =>
          /\ Len(comparison_list') = Len(comparison_list) - 1
          /\ \A j \in 1..Len(comparison_list') :
                comparison_list'[j] =
                    IF j < clicked.idx THEN comparison_list[j] ELSE comparison_list[j + 1]
    /\ TabStep("clear") => comparison_list' = <<>>
    /\ ~(AddStep \/ TabStep("remove") \/ TabStep("clear")) =>
          comparison_list' = comparison_list

\* C22: through every sequence of Add, Remove and Clear All, with searches
\* in between, the comparison list has no record twice; Add of a record of
\* the list leaves the list as it is, Remove at position i takes out the i-th
\* element and keeps the order of the others, Clear All leaves the list
\* empty, and nothing else changes the list.
C22_ComparisonList == [][ComparisonStep]_vars

\* Remove has just taken the first of two records out of the list
C22_Witness ==
    /\ pc = "restart"
    /\ clicked = [button |-> "remove", idx |-> 1]
    /\ Len(comp_df) = 2
    /\ Len(comparison_list) = 1
    /\ ComparisonRow(comparison_list[1]) = comp_df[2]

(* C23 *)

KnownRanges == {AllTime} \cup Buckets

\* the frame apply_filters returns for the received list and this run's
\* criteria with the date range "All Time"
AsAllTime ==
    apply_filters(<<received>>, 1, sources, entity_type_filter, min_score,
                  jurisdiction_filter, AllTime)

\* C23: with a date range that is neither "All Time" nor one of the three
\* buckets the date-range stage removes no record: apply_filters returns what
\* it returns for "All Time", the list that passes the other four predicates.
C23_UnknownDateRange ==
    (JustFiltered /\ date_range_filter \notin KnownRanges) =>
        /\ heap = AsAllTime.heap
        /\ unlimited = AsAllTime.ref
        /\ Output = SelectSeq(received,
                              LAMBDA r : /\ SourcePasses(r) /\ TypePasses(r)
                                         /\ ScorePasses(r) /\ JurisdictionPasses(r))

\* two records that no bucket's label is in, both returned
C23_Witness ==
    /\ JustFiltered /\ date_range_filter \notin KnownRanges
    /\ sources = <<>> /\ min_score = 0
    /\ Len(received) = 2
    /\ \A i \in 1..2 : "description" \notin DOMAIN received[i]
    /\ Output = received

(* C24 *)

\* the upstream call of this run failed, or its answer had no record
NothingFound ==
    \/ search_outcome \in SearchFailures
    \/ search_outcome = "ok" /\ received = <<>>

\* C24: search_icij_database returns None or a list that is not empty, never
\* an empty list; the filter, the limiter and the history write run only in
\* a run whose upstream answer had a record, and a run whose search failed
\* upstream or matched nothing hands no entry to the history.
C24_NeverEmptyList ==
    /\ results # 0 => heap[results] # <<>>
    /\ (pc \in {"filter", "limit", "history"} \/ filtered_results # 0 \/ handed # <<>>) =>
          /\ search_outcome = "ok"
          /\ received # <<>>
    /\ NothingFound =>
          /\ results = 0
          /\ filtered_results = 0
          /\ handed = <<>>
          /\ display = <<>>

\* the upstream answer was a list with no record: None is returned and the
\* run has gone on to the no-results message
C24_Witness ==
    /\ search_outcome = "ok"
    /\ pc = "compare"
    /\ results = 0
    /\ handed = <<>>
    /\ notices = {"No results found for the query"}

(* C25 *)

\* C25: filtering is idempotent: apply_filters applied, with the same
\* criteria, to the list it returned gives a list equal to that list.
C25_FilterIdempotent ==
    pc = "again" => heap[filtered_results] = Output

\* the first call dropped a record and kept one, the second kept it
C25_Witness ==
    /\ pc = "again"
    /\ Len(received) = 2
    /\ Len(Output) = 1
    /\ date_range_filter \in Buckets
    /\ filtered_results # unlimited
    /\ heap[filtered_results] = Output

====
